---- MODULE Spec2Model ----
(***************************************************************************)
(* Newsletter generator: the Flask service (src/app.py) and the CLI        *)
(* (src/cli.py).  Text is modelled as sequences of one-character strings,  *)
(* so that strip, split, replace, join and slicing are computed character  *)
(* by character as Python computes them.                                   *)
(***************************************************************************)
EXTENDS Integers, Sequences, FiniteSets, TLC

VARIABLES
  entry,          \* which entry point runs: a direct call, an endpoint, the CLI
  pc,             \* position of the run in its code
  source,         \* what the caller sent: request body, upload, arguments, document
  content,        \* the extracted text handed to generate_newsletter
  model_name, audience, api_token,
  instantiated,   \* number of pipeline(...) instantiations
  calls,          \* log of the generator calls made: <<field, continuation, prompt>>
  title, introduction, sections, cta,   \* locals of generate_newsletter_hf
  section_chunks,
  result,         \* what generate_newsletter returned or raised
  via,            \* the return statement that produced result
  response,       \* HTTP status of the endpoint (0: none yet)
  disk,           \* files present in the upload folder: <<path, document>>
  extracts,       \* number of extractor calls
  saved           \* the CLI wrote the newsletter to its output file

vars == <<entry, pc, source, content, model_name, audience, api_token, instantiated,
          calls, title, introduction, sections, cta, section_chunks, result, via,
          response, disk, extracts, saved>>

(***************************************************************************)
(* Python string and list primitives                                       *)
(***************************************************************************)
NL == "\n"
Whitespace == {" ", "\n", "\t"}

\* Python's None for a text value: a one-element sequence no text equals.
None == <<"<None>">>

\* Python truthiness of an optional string: None and "" are falsy.
Truthy(s) == s # None /\ s # <<>>

MinOf(S) == CHOOSE x \in S : \A y \in S : x <= y
MaxOf(S) == CHOOSE x \in S : \A y \in S : x >= y

Rep(c, n) == [i \in 1..n |-> c]

\* s[:n] and s[n:] on strings and lists
Take(s, n) == SubSeq(s, 1, IF n < Len(s) THEN n ELSE Len(s))
DropFirst(s, n) == SubSeq(s, n + 1, Len(s))

\* str.strip()
Strip(s) ==
  IF \A i \in 1..Len(s) : s[i] \in Whitespace THEN <<>>
  ELSE LET first == CHOOSE i \in 1..Len(s) :
                      s[i] \notin Whitespace /\ \A j \in 1..(i - 1) : s[j] \in Whitespace
           last == CHOOSE i \in 1..Len(s) :
                     s[i] \notin Whitespace /\ \A j \in (i + 1)..Len(s) : s[j] \in Whitespace
       IN SubSeq(s, first, last)

StartsWith(s, p) == Len(s) >= Len(p) /\ SubSeq(s, 1, Len(p)) = p

MatchAt(s, sep, i) ==
  /\ i + Len(sep) - 1 <= Len(s)
  /\ \A k \in 1..Len(sep) : s[i + k - 1] = sep[k]

\* sub in s
Contains(s, sub) == \E i \in 1..(Len(s) + 1) : MatchAt(s, sub, i)

\* s.split(sep): the matches of sep, taken left to right without overlap.
\* M holds the positions at or after i where sep occurs.
RECURSIVE SplitFrom(_, _, _, _)
SplitFrom(s, sep, i, M) ==
  IF M = {} THEN <<SubSeq(s, i, Len(s))>>
  ELSE LET j == MinOf(M)
       IN <<SubSeq(s, i, j - 1)>>
          \o SplitFrom(s, sep, j + Len(sep), {m \in M : m >= j + Len(sep)})

Split(s, sep) == SplitFrom(s, sep, 1, {j \in 1..Len(s) : MatchAt(s, sep, j)})

\* sep.join(parts)
RECURSIVE Join(_, _)
Join(parts, sep) ==
  IF parts = <<>> THEN <<>>
  ELSE IF Len(parts) = 1 THEN parts[1]
  ELSE parts[1] \o sep \o Join(Tail(parts), sep)

\* s.replace(old, new), old non-empty
Replace(s, old, new) == Join(Split(s, old), new)

\* [f(x) for x in xs]
MapStrip(xs) == [i \in 1..Len(xs) |-> Strip(xs[i])]

(***************************************************************************)
(* The newsletter structure and the fixed texts of the fallback composer   *)
(***************************************************************************)
Newsletter(h, i, s, c) ==
  [kind |-> "newsletter", headline |-> h, introduction |-> i, sections |-> s, cta |-> c]

NoResult == [kind |-> "none"]

TitlePrefix == <<"T","i","t","l","e",":"," ">>
SummaryPrefix == <<"S","u","m","m","a","r","y",":"," ">>
DefaultTitle == <<"N","e","w","s","l","e","t","t","e","r">>
SummaryTail == <<" ","T","h","i","s"," ","a","r","t","i","c","l","e"," ","p","r","o","v","i","d","e","s"," ","c","o","m","p","r","e","h","e","n","s","i","v","e"," ","c","o","v","e","r","a","g","e"," ","o","f"," ","t","h","e"," ","t","o","p","i","c"," ","w","i","t","h"," ","d","e","t","a","i","l","e","d"," ","a","n","a","l","y","s","i","s"," ","a","n","d"," ","i","n","s","i","g","h","t","s"," ","t","h","a","t"," ","a","r","e"," ","r","e","l","e","v","a","n","t"," ","t","o"," ","o","u","r"," ","r","e","a","d","e","r","s",".">>
GenericIntroduction == <<"T","h","i","s"," ","a","r","t","i","c","l","e"," ","c","o","v","e","r","s"," ","i","m","p","o","r","t","a","n","t"," ","d","e","v","e","l","o","p","m","e","n","t","s"," ","a","n","d"," ","p","r","o","v","i","d","e","s"," ","v","a","l","u","a","b","l","e"," ","i","n","s","i","g","h","t","s"," ","o","n"," ","c","u","r","r","e","n","t"," ","e","v","e","n","t","s"," ","a","n","d"," ","t","r","e","n","d","s"," ","t","h","a","t"," ","a","r","e"," ","r","e","l","e","v","a","n","t"," ","t","o"," ","o","u","r"," ","a","u","d","i","e","n","c","e",".">>
FallbackCta == <<"R","e","a","d"," ","t","h","e"," ","f","u","l","l"," ","a","r","t","i","c","l","e"," ","f","o","r"," ","c","o","m","p","r","e","h","e","n","s","i","v","e"," ","d","e","t","a","i","l","s"," ","a","n","d"," ","s","t","a","y"," ","i","n","f","o","r","m","e","d"," ","a","b","o","u","t"," ","t","h","e"," ","l","a","t","e","s","t"," ","d","e","v","e","l","o","p","m","e","n","t","s"," ","i","n"," ","t","h","i","s"," ","i","m","p","o","r","t","a","n","t"," ","s","t","o","r","y",".">>

MIN_CONTENT == 50
PARAGRAPH_MIN == 80
SENTENCE_MIN == 60
SECTION_CAP == 200
MAX_SECTIONS == 3

(***************************************************************************)
(* create_fallback_newsletter (src/cli.py)                                 *)
(***************************************************************************)
\* The "Title: " / "Summary: " header step: the first line with every
\* occurrence of the prefix removed, and the content from its third line on.
HeaderText(c, prefix) ==
  IF StartsWith(c, prefix) THEN Strip(Replace(Split(c, <<NL>>)[1], prefix, <<>>)) ELSE <<>>

HeaderRest(c, prefix) ==
  IF StartsWith(c, prefix) THEN Join(DropFirst(Split(c, <<NL>>), 2), <<NL>>) ELSE c

FallbackTitle(c) ==
  LET t == HeaderText(c, TitlePrefix) IN IF t = <<>> THEN DefaultTitle ELSE t

FallbackIntroduction(c) ==
  LET summary == HeaderText(HeaderRest(c, TitlePrefix), SummaryPrefix)
  IN IF summary # <<>> THEN summary \o SummaryTail ELSE GenericIntroduction

\* The content left once both headers are taken off.
FallbackBody(c) == HeaderRest(HeaderRest(c, TitlePrefix), SummaryPrefix)

Paragraphs(body) ==
  SelectSeq(MapStrip(Split(body, <<NL, NL>>)), LAMBDA p : Len(p) > PARAGRAPH_MIN)

Sentences(body) ==
  SelectSeq(MapStrip(Split(body, <<".">>)), LAMBDA s : Len(s) > SENTENCE_MIN)

\* The grouping loop: <<sections, current_section>> after sentences i..n.
RECURSIVE Pack(_, _, _, _)
Pack(sentences, i, current, secs) ==
  IF i > Len(sentences) THEN <<secs, current>>
  ELSE IF Len(current) < SECTION_CAP
       THEN Pack(sentences, i + 1,
                 IF current # <<>> THEN current \o <<" ">> \o sentences[i] ELSE sentences[i],
                 secs)
       ELSE Pack(sentences, i + 1, sentences[i],
                 IF current # <<>> THEN Append(secs, Strip(current)) ELSE secs)

PackSentences(sentences) ==
  LET p == Pack(sentences, 1, <<>>, <<>>)
  IN IF p[2] # <<>> THEN Append(p[1], Strip(p[2])) ELSE p[1]

\* while len(sections) < 2 and sentences: ...
RECURSIVE PadSections(_, _)
PadSections(secs, sentences) ==
  IF Len(secs) < 2 /\ sentences # <<>>
  THEN LET joined == Join(secs, <<" ">>)
           remaining == SelectSeq(sentences, LAMBDA s : ~Contains(joined, s))
       IN IF remaining # <<>> THEN PadSections(Append(secs, remaining[1]), sentences)
          ELSE secs
  ELSE secs

\* The paragraphs taken as soon as one qualifies
BodySections_one_paragraph(body) ==
  LET paragraphs == Paragraphs(body)
      secs == IF Len(paragraphs) < 1
              THEN PadSections(PackSentences(Sentences(body)), Sentences(body))
              ELSE Take(paragraphs, MAX_SECTIONS)
  IN Take(secs, MAX_SECTIONS)

\* The sections built from the content left after the header step
BodySections(body) ==
  LET paragraphs == Paragraphs(body)
      secs == IF Len(paragraphs) < 2
              THEN PadSections(PackSentences(Sentences(body)), Sentences(body))
              ELSE Take(paragraphs, MAX_SECTIONS)
  IN Take(secs, MAX_SECTIONS)

FallbackSections(c) == BodySections(FallbackBody(c))

create_fallback_newsletter(c) ==
  Newsletter(FallbackTitle(c), FallbackIntroduction(c), FallbackSections(c), FallbackCta)

(***************************************************************************)
(* Section partitioning of generate_newsletter_hf (both files)             *)
(***************************************************************************)
NUM_CHUNKS == 3

ContentLines(c) == SelectSeq(Split(c, <<NL>>), LAMBDA l : Strip(l) # <<>>)

ChunkSize(n) == IF n \div NUM_CHUNKS > 1 THEN n \div NUM_CHUNKS ELSE 1

\* content_lines[a:b] with 0-based Python bounds
PySlice(xs, a, b) == SubSeq(xs, a + 1, IF b < Len(xs) THEN b ELSE Len(xs))

\* The chunks as lists of lines, before '\n'.join
ChunkLines(c) ==
  LET lines == ContentLines(c)
      k == ChunkSize(Len(lines))
  IN [i \in 1..NUM_CHUNKS |-> PySlice(lines, (i - 1) * k, i * k)]

SectionChunks(c) ==
  LET chunk_lines == ChunkLines(c)
  IN [i \in 1..NUM_CHUNKS |-> Join(chunk_lines[i], <<NL>>)]

(***************************************************************************)
(* The prompts of generate_newsletter_hf.  A prompt is the template it is  *)
(* built from, the audience tag where the template words it in, and the    *)
(* text the template is filled with.  The service has a template for       *)
(* Phi-3 and one for the other models; the CLI has one template.           *)
(***************************************************************************)
Phi3 == "microsoft/Phi-3-mini-4k-instruct"

Template(strict, model) ==
  IF ~strict THEN "cli" ELSE IF model = Phi3 THEN "phi3" ELSE "base"

\* content[:1000] in the service, content[:3500] in the CLI
ContentChars(template) == IF template = "cli" THEN 3500 ELSE 1000

\* chunk[:500] in the service, chunk[:800] in the CLI
ChunkChars(template) == IF template = "cli" THEN 800 ELSE 500

\* Only the CLI's introduction, section and call-to-action templates name
\* the audience.
Wording(template, aud) == IF template = "cli" THEN aud ELSE "-"

Prompt(template, field, wording, index, text) ==
  [template |-> template, field |-> field, wording |-> wording, index |-> index,
   text |-> text]

\* A title prompt that carries the token
TitlePrompt_with_token(template, aud, token, text) ==
  Prompt(template, "title", "-", 0, token \o Take(text, ContentChars(template)))

TitlePrompt(template, aud, token, text) ==
  Prompt(template, "title", "-", 0, Take(text, ContentChars(template)))

IntroPrompt(template, aud, token, text) ==
  Prompt(template, "introduction", Wording(template, aud), 0,
         Take(text, ContentChars(template)))

\* i counts the chunks from 0; only the base template writes "Section {i+1}"
SectionPrompt(template, aud, token, chunk, i) ==
  Prompt(template, "section", Wording(template, aud),
         IF template = "base" THEN i + 1 ELSE 0, Take(chunk, ChunkChars(template)))

\* A call-to-action prompt that leaves the title out
CtaPrompt_without_title(template, aud, token, t) ==
  Prompt(template, "cta", Wording(template, aud), 0, <<>>)

CtaPrompt(template, aud, token, t) ==
  Prompt(template, "cta", Wording(template, aud), 0, t)

(***************************************************************************)
(* generate_newsletter_hf: post-processing, validation, return             *)
(***************************************************************************)
Raised == <<"<raised>">>

Failure(cause, missing) == [kind |-> "error", cause |-> cause, missing |-> missing]

TITLE_MIN == 5
INTRODUCTION_MIN == 10
SECTION_MIN == 20

\* generated_text[len(prompt):].replace('\n', ' ').strip()
PostProcess(out) == Strip(Replace(out, <<NL>>, <<" ">>))

\* x.split('\n')[0].strip() if x else ""
FirstLine(x) == IF x # <<>> THEN Strip(Split(x, <<NL>>)[1]) ELSE <<>>

\* [section.split('\n')[0].strip() for section in sections if section and section.strip()]
CleanSections(secs) ==
  LET kept == SelectSeq(secs, LAMBDA x : x # <<>> /\ Strip(x) # <<>>)
  IN [i \in 1..Len(kept) |-> FirstLine(kept[i])]

\* missing_parts of the service, from the cleaned fields
\* The title bound taken inclusively
MissingTitle_inclusive(t) ==
  IF t = <<>> \/ Len(Strip(t)) <= TITLE_MIN THEN <<"title">> ELSE <<>>

MissingTitle(t) ==
  IF t = <<>> \/ Len(Strip(t)) < TITLE_MIN THEN <<"title">> ELSE <<>>

MissingIntroduction(i) ==
  IF i = <<>> \/ Len(Strip(i)) < INTRODUCTION_MIN THEN <<"introduction">> ELSE <<>>

MissingSections(secs) ==
  IF secs = <<>> \/ Len(secs) < 1 THEN <<"sections">>
  ELSE IF ~ \E k \in 1..Len(secs) : Len(Strip(secs[k])) > SECTION_MIN
       THEN <<"valid sections">>
       ELSE <<>>

MissingParts(t, i, secs) ==
  MissingTitle(t) \o MissingIntroduction(i) \o MissingSections(secs)

\* Lines 214-244 of src/app.py: clean up, validate, raise or return.
FinishStrict(t, i, secs, c) ==
  LET t1 == FirstLine(t)
      i1 == FirstLine(i)
      s1 == CleanSections(secs)
      c1 == FirstLine(c)
      missing == MissingParts(t1, i1, s1)
  IN IF missing # <<>> THEN Failure("validation", missing)
     ELSE Newsletter(t1, i1, s1, c1)

\* not title or not introduction or not any(sections)
LenientMissing(t, i, secs) ==
  t = <<>> \/ i = <<>> \/ ~ \E k \in 1..Len(secs) : secs[k] # <<>>

\* Lines 154-163 of src/cli.py: fall back or return.
FinishLenient(t, i, secs, c, text) ==
  IF LenientMissing(t, i, secs) THEN create_fallback_newsletter(text)
  ELSE Newsletter(t, i, secs, c)

\* The except clause: src/app.py re-raises, src/cli.py falls back.
OnRaiseStrict(text) == Failure("model", <<>>)
OnRaiseLenient_reraise(text) == Failure("model", <<>>)
OnRaiseLenient(text) == create_fallback_newsletter(text)

\* The guard without the strip
TooShort_unstripped(text) == ~Truthy(text) \/ Len(text) < MIN_CONTENT

\* generate_newsletter's guard
TooShort(text) == ~Truthy(text) \/ Len(Strip(text)) < MIN_CONTENT

\* The order of the generator calls
Fields == <<"title", "introduction", "section", "section", "section", "cta">>

\* generate_newsletter_hf as a function of its arguments and of what the
\* generator answers: outs[k] is the continuation returned by the k-th call,
\* or Raised when that call raises (it is then the last call).  Gives the
\* prompts sent, and the newsletter returned or the failure raised once the
\* run is over.
generate_newsletter_hf(strict, text, model, aud, token, outs) ==
  LET template == Template(strict, model)
      chunks == SectionChunks(text)
      Out(k) == PostProcess(outs[k])
      prompts ==
        [k \in 1..Len(outs) |->
           IF k = 1 THEN TitlePrompt(template, aud, token, text)
           ELSE IF k = 2 THEN IntroPrompt(template, aud, token, text)
           ELSE IF k <= 5 THEN SectionPrompt(template, aud, token, chunks[k - 2], k - 3)
           ELSE CtaPrompt(template, aud, token, Out(1))]
      raised == \E k \in 1..Len(outs) : outs[k] = Raised
      secs == [i \in 1..NUM_CHUNKS |-> Out(i + 2)]
      newsletter == IF raised
                    THEN (IF strict THEN OnRaiseStrict(text) ELSE OnRaiseLenient(text))
                    ELSE IF Len(outs) < Len(Fields) THEN NoResult
                    ELSE IF strict THEN FinishStrict(Out(1), Out(2), secs, Out(6))
                    ELSE FinishLenient(Out(1), Out(2), secs, Out(6), text)
  IN [prompts |-> prompts,
      result |-> newsletter,
      via |-> IF newsletter.kind = "none" THEN "none"
              ELSE IF newsletter.kind = "error" THEN "raised"
              ELSE IF ~strict /\ (raised \/ LenientMissing(Out(1), Out(2), secs))
              THEN "fallback" ELSE "model"]

(***************************************************************************)
(* The extractors                                                          *)
(***************************************************************************)
NonEmpty(xs) == SelectSeq(xs, LAMBDA x : x # <<>>)

\* A page that yields no text is None: page.extract_text() or ''
OrEmpty(x) == IF x = None THEN <<>> ELSE x

RECURSIVE Concat(_)
Concat(xs) == IF xs = <<>> THEN <<>> ELSE OrEmpty(Head(xs)) \o Concat(Tail(xs))

\* A document is what the libraries find: fail (any step raises), body
\* (the page has a content element), parts (text nodes, pages, paragraphs).
extract_text_from_url(doc) ==
  IF doc.fail THEN None
  ELSE IF ~doc.body THEN None
  ELSE LET text == Join(NonEmpty(MapStrip([k \in 1..Len(doc.parts) |-> OrEmpty(doc.parts[k])])), <<NL>>)
           lines == NonEmpty(MapStrip(Split(text, <<NL>>)))
       IN Join(lines, <<NL>>)

\* The extractor without its except clause
extract_text_from_pdf_propagates(doc) ==
  IF doc.fail THEN Raised ELSE Concat(doc.parts)

extract_text_from_pdf(doc) ==
  IF doc.fail THEN None ELSE Concat(doc.parts)

extract_text_from_docx(doc) ==
  IF doc.fail THEN None
  ELSE Join([k \in 1..Len(doc.parts) |-> OrEmpty(doc.parts[k])], <<NL>>)

(***************************************************************************)
(* File names of the upload endpoint                                       *)
(***************************************************************************)
LowerChar(ch) ==
  CASE ch = "P" -> "p" [] ch = "D" -> "d" [] ch = "F" -> "f" [] ch = "O" -> "o"
    [] ch = "C" -> "c" [] ch = "X" -> "x" [] ch = "A" -> "a" [] OTHER -> ch

Lower(s) == [k \in 1..Len(s) |-> LowerChar(s[k])]

EndsWith(s, suffix) ==
  Len(s) >= Len(suffix) /\ SubSeq(s, Len(s) - Len(suffix) + 1, Len(s)) = suffix

DotPdf == <<".", "p", "d", "f">>
DotDocx == <<".", "d", "o", "c", "x">>
ALLOWED_EXTENSIONS == { <<"p", "d", "f">>, <<"d", "o", "c", "x">> }

\* '.' in filename and filename.rsplit('.', 1)[1].lower() in ALLOWED_EXTENSIONS
allowed_file(filename) ==
  LET dots == {k \in 1..Len(filename) : filename[k] = "."}
  IN /\ dots # {}
     /\ Lower(SubSeq(filename, MaxOf(dots) + 1, Len(filename))) \in ALLOWED_EXTENSIONS

FilenameChars ==
  {"a", "b", "c", "d", "e", "f", "o", "p", "t", "x", "A", "C", "D", "F", "O", "P", "X",
   ".", "_", "-"}

\* s.strip("._")
StripDots(s) ==
  LET N == {k \in 1..Len(s) : s[k] \notin {".", "_"}}
  IN IF N = {} THEN <<>> ELSE SubSeq(s, MinOf(N), MaxOf(N))

\* werkzeug's secure_filename: path separators become spaces, whitespace runs
\* become "_", characters outside [A-Za-z0-9_.-] go, "." and "_" are
\* stripped from both ends.
secure_filename(filename) ==
  LET spaced == Replace(filename, <<"/">>, <<" ">>)
      words == NonEmpty(Split(spaced, <<" ">>))
      joined == Join(words, <<"_">>)
      kept == SelectSeq(joined, LAMBDA ch : ch \in FilenameChars)
  IN StripDots(kept)

(***************************************************************************)
(* Documents: the texts the extractors and callers can hand over           *)
(***************************************************************************)
MaxParts == 3

Letters == <<"a", "b", "c", "d", "e", "f">>
BlockLens == {25, 61, 100}
Separators == {<<NL, NL>>, <<".", " ">>}

\* Blocks of lens[i] letters, block i followed by seps[i]
RECURSIVE Body(_, _, _)
Body(lens, seps, i) ==
  IF i > Len(lens) THEN <<>>
  ELSE Rep(Letters[i], lens[i])
       \o (IF i < Len(lens) THEN seps[i] ELSE <<>>)
       \o Body(lens, seps, i + 1)

Bodies ==
  UNION { { Body(l, s, 1) : l \in [1..k -> BlockLens], s \in [1..(k - 1) -> Separators] }
          : k \in 1..MaxParts }

Headers ==
  { <<>>,
    TitlePrefix \o <<"M","a","r","k","e","t","s"," ","R","a","l","l","y">> \o <<NL, NL>>,
    TitlePrefix \o <<"M","a","r","k","e","t","s"," ","R","a","l","l","y">> \o <<NL>>,
    TitlePrefix \o <<NL, NL>>,
    SummaryPrefix \o <<"S","t","o","c","k","s"," ","r","o","s","e"," ","t","o","d","a","y",".">> \o <<NL, NL>>,
    TitlePrefix \o <<"M","a","r","k","e","t","s"," ","R","a","l","l","y">> \o <<NL, NL>> \o SummaryPrefix \o <<"S","t","o","c","k","s"," ","r","o","s","e"," ","t","o","d","a","y",".">> \o <<NL, NL>> }

SpecExample ==
  TitlePrefix \o <<"M","a","r","k","e","t","s"," ","R","a","l","l","y">> \o <<NL, NL>> \o SummaryPrefix \o <<"S","t","o","c","k","s"," ","r","o","s","e"," ","t","o","d","a","y",".">> \o <<NL, NL>>
  \o <<"B","o","d","y"," ","t","e","x","t"," ","t","h","a","t"," ","i","s"," ","d","e","f","i","n","i","t","e","l","y"," ","l","o","n","g","e","r"," ","t","h","a","n"," ","e","i","g","h","t","y"," ","c","h","a","r","a","c","t","e","r","s"," ","t","o"," ","q","u","a","l","i","f","y"," ","a","s"," ","a"," ","p","a","r","a","g","r","a","p","h"," ","s","e","c","t","i","o","n"," ","o","n","e",".">> \o <<NL, NL>> \o <<"A","n","o","t","h","e","r"," ","p","a","r","a","g","r","a","p","h"," ","a","l","s","o"," ","e","x","c","e","e","d","i","n","g"," ","e","i","g","h","t","y"," ","c","h","a","r","a","c","t","e","r","s"," ","s","o"," ","i","t"," ","q","u","a","l","i","f","i","e","s"," ","a","s"," ","a"," ","s","e","c","o","n","d"," ","s","e","c","t","i","o","n"," ","h","e","r","e",".">>

\* n distinct lines of six letters, separated by gap
MaxLines == 10

LineText(i) == Rep(Letters[((i - 1) % 6) + 1], 5) \o <<Letters[((i - 1) \div 6) + 1]>>

LinesDoc(n, gap) == Join([i \in 1..n |-> LineText(i)], gap)

LineGaps == { <<NL>>, <<NL, NL>>, <<NL, " ", NL>> }

LineContents == { LinesDoc(n, g) : n \in 0..MaxLines, g \in LineGaps }

\* Bodies long enough for more than three paragraphs or packed sections
LongBodies ==
  { Body(<<100, 100, 100, 100>>, <<<<NL, NL>>, <<NL, NL>>, <<NL, NL>>>>, 1),
    Body(<<200, 200, 200, 200>>, <<<<".", " ">>, <<".", " ">>, <<".", " ">>>>, 1),
    Body(<<61, 61, 61, 100, 100>>, <<<<".", " ">>, <<".", " ">>, <<".", " ">>, <<".", " ">>>>, 1) }

PureContents ==
  { h \o b : h \in Headers, b \in Bodies } \cup {SpecExample} \cup LineContents
    \cup LongBodies

(***************************************************************************)
(* Specification of the pure text functions                                *)
(***************************************************************************)
NoSource ==
  [json |-> FALSE, url |-> None, filename |-> None, exists |-> FALSE,
   extract_only |-> FALSE, doc |-> [fail |-> TRUE, body |-> FALSE, parts |-> <<>>]]

Idle ==
  /\ instantiated = 0 /\ calls = <<>> /\ title = None /\ introduction = None
  /\ sections = <<>> /\ cta = None /\ section_chunks = <<>> /\ result = NoResult
  /\ via = "none" /\ response = 0 /\ disk = {} /\ extracts = 0 /\ saved = FALSE

InitPure ==
  /\ Idle
  /\ entry = "pure" /\ pc = "start" /\ source = NoSource
  /\ model_name = "gpt2" /\ audience = "business" /\ api_token = None
  /\ content \in PureContents

FallbackCall ==
  /\ entry = "pure" /\ pc = "start"
  /\ result' = create_fallback_newsletter(content)
  /\ via' = "fallback"
  /\ pc' = "fallback_done"
  /\ UNCHANGED <<entry, source, content, model_name, audience, api_token, instantiated,
                 calls, title, introduction, sections, cta, section_chunks, response,
                 disk, extracts, saved>>

PartitionCall ==
  /\ entry = "pure" /\ pc = "start"
  /\ section_chunks' = SectionChunks(content)
  /\ pc' = "partition_done"
  /\ UNCHANGED <<entry, source, content, model_name, audience, api_token, instantiated,
                 calls, title, introduction, sections, cta, result, via, response,
                 disk, extracts, saved>>

NextPure == FallbackCall \/ PartitionCall

SpecPure == InitPure /\ [][NextPure]_vars

(***************************************************************************)
(* Inputs of the runs                                                      *)
(***************************************************************************)
ModelNames == {"gpt2", Phi3}

\* Continuations the text-generation model can return for each field
TitleTexts == { <<>>, <<" ">> \o Rep("x", 4) \o <<NL>>, Rep("x", 5) }
IntroTexts == { <<>>, Rep("y", 9), Rep("y", 5) \o <<NL>> \o Rep("y", 4) }
SectionTexts == { <<NL>>, Rep("s", 20), Rep("s", 21) \o <<NL>> }
CtaTexts == { <<>>, <<"g", "o", NL, "n", "o", "w">> }

Doc(fail, body, parts) == [fail |-> fail, body |-> body, parts |-> parts]
FailDoc == Doc(TRUE, FALSE, <<>>)
NoBodyDoc == Doc(FALSE, FALSE, <<>>)
EmptyDoc == Doc(FALSE, TRUE, <<None>>)
ShortDoc == Doc(FALSE, TRUE, <<Rep("a", 20)>>)
GoodDoc == Doc(FALSE, TRUE, <<Rep("a", 61) \o <<".">>, None, Rep("b", 100)>>)
Docs == {FailDoc, NoBodyDoc, EmptyDoc, ShortDoc, GoodDoc}

Padded49 == <<" ">> \o Rep("a", 49) \o <<NL>>
Exact50 == Rep("a", 50)
DirectContents == {None, <<>>, Padded49, Exact50, SpecExample, LinesDoc(MaxLines, <<NL>>)}

SomeUrl == <<"u">>
Urls == {None, <<>>, SomeUrl}

Filenames ==
  { None, <<>>,
    <<"a", ".", "p", "d", "f">>,
    <<"b", ".", "D", "O", "C", "X">>,
    <<"a", ".", "t", "x", "t">>,
    <<"p", "d", "f">>,
    <<".", "p", "d", "f">> }

Source(json, url, filename, exists, extract_only, doc) ==
  [json |-> json, url |-> url, filename |-> filename, exists |-> exists,
   extract_only |-> extract_only, doc |-> doc]

(***************************************************************************)
(* Initial states: one run of one entry point                              *)
(***************************************************************************)
\* audience and api_token: the defaults, another audience, a token
DefaultParams == <<"business", None>>
Params == {DefaultParams, <<"technical", None>>, <<"business", <<"k">>>>}

InitParams ==
  /\ model_name \in (IF entry \in {"gen_app", "api_url"} THEN ModelNames ELSE {"gpt2"})
  /\ \E p \in (IF entry \in {"gen_app", "gen_cli"} THEN Params ELSE {DefaultParams}) :
        audience = p[1] /\ api_token = p[2]

\* generate_newsletter called directly, src/app.py or src/cli.py
InitDirect ==
  /\ entry \in {"gen_app", "gen_cli"} /\ pc = "generate"
  /\ source = NoSource
  /\ content \in DirectContents

InitApiUrl ==
  /\ entry = "api_url" /\ pc = "request" /\ content = None
  /\ \E json \in BOOLEAN, url \in Urls, doc \in Docs :
       source = Source(json, IF json THEN url ELSE None, None, FALSE, FALSE, doc)

InitApiFile ==
  /\ entry = "api_file" /\ pc = "request" /\ content = None
  /\ \E filename \in Filenames, doc \in Docs :
       source = Source(FALSE, None, filename, FALSE, FALSE, doc)

\* --url, --file (with whether the file exists)
CliArgs ==
  { <<None, None, FALSE>>,
    <<SomeUrl, None, FALSE>>,
    <<SomeUrl, <<"a", ".", "p", "d", "f">>, TRUE>>,
    <<None, <<"a", ".", "p", "d", "f">>, TRUE>>,
    <<None, <<"a", ".", "p", "d", "f">>, FALSE>>,
    <<None, <<"b", ".", "D", "O", "C", "X">>, TRUE>>,
    <<None, <<"a", ".", "t", "x", "t">>, TRUE>> }

InitCliMain ==
  /\ entry = "cli_main" /\ pc = "request" /\ content = None
  /\ \E a \in CliArgs, extract_only \in BOOLEAN, doc \in Docs :
       source = Source(FALSE, a[1], a[2], a[3], extract_only, doc)

\* interactive_mode() before its first prompt: nothing typed yet
InitInteractive ==
  /\ entry = "interactive" /\ pc = "setup" /\ content = None
  /\ source = [NoSource EXCEPT !.url = <<>>, !.filename = <<>>] @@ [choice |-> "", save |-> ""]

Init ==
  /\ Idle
  /\ (InitDirect \/ InitApiUrl \/ InitApiFile \/ InitCliMain \/ InitInteractive)
  /\ InitParams

(***************************************************************************)
(* generate_newsletter and generate_newsletter_hf                          *)
(***************************************************************************)
Strict == entry \in {"gen_app", "api_url", "api_file"}

Inputs == <<entry, source, content, model_name, audience, api_token>>
Outside == <<response, disk, extracts, saved>>

\* generate_newsletter: the length guard, then the call of generate_newsletter_hf
GenerateNewsletter ==
  /\ pc = "generate"
  /\ IF TooShort(content)
     THEN result' = NoResult /\ via' = "rejected" /\ pc' = "returned"
     ELSE pc' = "pipeline" /\ UNCHANGED <<result, via>>
  /\ UNCHANGED <<Inputs, Outside, instantiated, calls, title, introduction, sections,
                 cta, section_chunks>>

\* An exception inside the try block reaches the except clause.
ModelRaises ==
  /\ pc' = "returned"
  /\ IF Strict
     THEN result' = OnRaiseStrict(content) /\ via' = "raised"
     ELSE result' = OnRaiseLenient(content) /\ via' = "fallback"

\* The prompt of the call about to be made, from the locals
TemplateNow == Template(Strict, model_name)
TitlePromptNow == TitlePrompt(TemplateNow, audience, api_token, content)
IntroPromptNow == IntroPrompt(TemplateNow, audience, api_token, content)
SectionPromptNow ==
  SectionPrompt(TemplateNow, audience, api_token, section_chunks[Len(sections) + 1],
                Len(sections))
CtaPromptNow == CtaPrompt(TemplateNow, audience, api_token, title)

\* generator = pipeline("text-generation", model=model_name, ...)
Instantiate ==
  /\ pc = "pipeline"
  /\ instantiated' = instantiated + 1
  /\ \/ pc' = "title" /\ UNCHANGED <<result, via>>
     \/ ModelRaises
  /\ UNCHANGED <<Inputs, Outside, calls, title, introduction, sections, cta,
                 section_chunks>>

GenerateTitle ==
  /\ pc = "title"
  /\ \/ \E out \in TitleTexts :
          /\ calls' = Append(calls, <<"title", out, TitlePromptNow>>)
          /\ title' = PostProcess(out)
          /\ pc' = "introduction"
          /\ UNCHANGED <<result, via>>
     \/ /\ calls' = Append(calls, <<"title", Raised, TitlePromptNow>>)
        /\ ModelRaises
        /\ UNCHANGED title
  /\ UNCHANGED <<Inputs, Outside, instantiated, introduction, sections, cta,
                 section_chunks>>

\* The introduction call, then the split of the content into chunks
GenerateIntroduction ==
  /\ pc = "introduction"
  /\ \/ \E out \in IntroTexts :
          /\ calls' = Append(calls, <<"introduction", out, IntroPromptNow>>)
          /\ introduction' = PostProcess(out)
          /\ section_chunks' = SectionChunks(content)
          /\ pc' = "section"
          /\ UNCHANGED <<result, via>>
     \/ /\ calls' = Append(calls, <<"introduction", Raised, IntroPromptNow>>)
        /\ ModelRaises
        /\ UNCHANGED <<introduction, section_chunks>>
  /\ UNCHANGED <<Inputs, Outside, instantiated, title, sections, cta>>

\* One pass of the loop over section_chunks
GenerateSection ==
  /\ pc = "section"
  /\ \/ \E out \in SectionTexts :
          /\ calls' = Append(calls, <<"section", out, SectionPromptNow>>)
          /\ sections' = Append(sections, PostProcess(out))
          /\ pc' = IF Len(sections) + 1 = Len(section_chunks) THEN "cta" ELSE "section"
          /\ UNCHANGED <<result, via>>
     \/ /\ calls' = Append(calls, <<"section", Raised, SectionPromptNow>>)
        /\ ModelRaises
        /\ UNCHANGED sections
  /\ UNCHANGED <<Inputs, Outside, instantiated, title, introduction, cta, section_chunks>>

\* The call-to-action call, then validation and the return
GenerateCta ==
  /\ pc = "cta"
  /\ \/ \E out \in CtaTexts :
          /\ calls' = Append(calls, <<"cta", out, CtaPromptNow>>)
          /\ cta' = PostProcess(out)
          /\ pc' = "returned"
          /\ result' = IF Strict
                       THEN FinishStrict(title, introduction, sections, cta')
                       ELSE FinishLenient(title, introduction, sections, cta', content)
          /\ via' = IF Strict
                    THEN (IF result'.kind = "error" THEN "raised" ELSE "model")
                    ELSE (IF LenientMissing(title, introduction, sections)
                          THEN "fallback" ELSE "model")
     \/ /\ calls' = Append(calls, <<"cta", Raised, CtaPromptNow>>)
        /\ ModelRaises
        /\ UNCHANGED cta
  /\ UNCHANGED <<Inputs, Outside, instantiated, title, introduction, sections,
                 section_chunks>>

Compose ==
  \/ GenerateNewsletter
  \/ Instantiate
  \/ GenerateTitle
  \/ GenerateIntroduction
  \/ GenerateSection
  \/ GenerateCta

Locals == <<instantiated, calls, title, introduction, sections, cta, section_chunks,
            result, via>>

(***************************************************************************)
(* POST /api/generate-from-url (src/app.py)                                *)
(***************************************************************************)
\* data = request.get_json(); url = data.get('url'); if not url: 400
ApiUrlRequest ==
  /\ entry = "api_url" /\ pc = "request"
  /\ IF ~source.json THEN response' = 500 /\ pc' = "done"
     ELSE IF ~Truthy(source.url) THEN response' = 400 /\ pc' = "done"
     ELSE pc' = "extract" /\ UNCHANGED response
  /\ UNCHANGED <<Inputs, Locals, disk, extracts, saved>>

ApiUrlExtract ==
  /\ entry = "api_url" /\ pc = "extract"
  /\ content' = extract_text_from_url(source.doc)
  /\ extracts' = extracts + 1
  /\ IF content' = Raised THEN response' = 500 /\ pc' = "done"
     ELSE IF ~Truthy(content') THEN response' = 400 /\ pc' = "done"
     ELSE pc' = "generate" /\ UNCHANGED response
  /\ UNCHANGED <<entry, source, model_name, audience, api_token, Locals, disk, saved>>

\* if not newsletter: 500; return jsonify(newsletter); except Exception: 500
ApiUrlRespond ==
  /\ entry = "api_url" /\ pc = "returned"
  /\ response' = IF result.kind = "newsletter" THEN 200 ELSE 500
  /\ pc' = "done"
  /\ UNCHANGED <<Inputs, Locals, disk, extracts, saved>>

(***************************************************************************)
(* POST /api/generate-from-file (src/app.py)                               *)
(***************************************************************************)
UploadPath == secure_filename(source.filename)

ApiFileRequest ==
  /\ entry = "api_file" /\ pc = "request"
  /\ IF source.filename = None THEN response' = 400 /\ pc' = "done"
     ELSE IF source.filename = <<>> THEN response' = 400 /\ pc' = "done"
     ELSE IF ~allowed_file(source.filename) THEN response' = 400 /\ pc' = "done"
     ELSE pc' = "save" /\ UNCHANGED response
  /\ UNCHANGED <<Inputs, Locals, disk, extracts, saved>>

\* file.save(filepath): the file at path now holds doc, whatever it held
SaveUpload(files, path, doc) == {f \in files : f[1] # path} \cup {<<path, doc>>}

\* os.path.exists(filepath)
Exists(files, path) == \E f \in files : f[1] = path

\* What an extractor finds at path: the file's document, or nothing to open
ReadFile(files, path) ==
  IF Exists(files, path) THEN (CHOOSE f \in files : f[1] = path)[2] ELSE FailDoc

ApiFileSave ==
  /\ entry = "api_file" /\ pc = "save"
  /\ disk' = SaveUpload(disk, UploadPath, source.doc)
  /\ pc' = "extract"
  /\ UNCHANGED <<Inputs, Locals, response, extracts, saved>>

\* What the extractor finds at filepath: the upload, or nothing to open.
OnDisk == ReadFile(disk, UploadPath)

\* The try block up to generate_newsletter; a return inside it stages the
\* response, which the server sends once the finally clause has run.
ApiFileExtract ==
  /\ entry = "api_file" /\ pc = "extract"
  /\ IF EndsWith(Lower(UploadPath), DotPdf)
     THEN content' = extract_text_from_pdf(OnDisk) /\ extracts' = extracts + 1
     ELSE IF EndsWith(Lower(UploadPath), DotDocx)
     THEN content' = extract_text_from_docx(OnDisk) /\ extracts' = extracts + 1
     ELSE UNCHANGED <<content, extracts>>
  /\ IF ~(EndsWith(Lower(UploadPath), DotPdf) \/ EndsWith(Lower(UploadPath), DotDocx))
     THEN response' = 400 /\ pc' = "cleanup"
     ELSE IF content' = Raised THEN response' = 500 /\ pc' = "cleanup"
     ELSE IF ~Truthy(content') THEN response' = 400 /\ pc' = "cleanup"
     ELSE pc' = "generate" /\ UNCHANGED response
  /\ UNCHANGED <<entry, source, model_name, audience, api_token, Locals, disk, saved>>

\* finally: if os.path.exists(filepath): os.remove(filepath)
RemoveUpload(files, path) == {f \in files : f[1] # path}

\* The removal placed after the try block instead of in a finally clause
ApiFileCleanup_after_try ==
  /\ entry = "api_file" /\ pc \in {"cleanup", "returned"}
  /\ disk' = IF pc = "returned" /\ result.kind # "error"
             THEN RemoveUpload(disk, UploadPath) ELSE disk
  /\ response' = IF pc = "cleanup" THEN response
                 ELSE IF result.kind = "newsletter" THEN 200 ELSE 500
  /\ pc' = "done"
  /\ UNCHANGED <<Inputs, Locals, extracts, saved>>

ApiFileCleanup ==
  /\ entry = "api_file" /\ pc \in {"cleanup", "returned"}
  /\ disk' = RemoveUpload(disk, UploadPath)
  /\ response' = IF pc = "cleanup" THEN response
                 ELSE IF result.kind = "newsletter" THEN 200 ELSE 500
  /\ pc' = "done"
  /\ UNCHANGED <<Inputs, Locals, extracts, saved>>

(***************************************************************************)
(* main() of src/cli.py without --interactive                              *)
(***************************************************************************)
CliMainArgs ==
  /\ entry = "cli_main" /\ pc = "request"
  /\ IF source.url = None /\ source.filename = None THEN pc' = "done"
     ELSE IF source.url # None THEN pc' = "extract"
     ELSE IF ~source.exists THEN pc' = "done"
     ELSE pc' = "extract"
  /\ UNCHANGED <<Inputs, Locals, Outside>>

CliMainExtract ==
  /\ entry = "cli_main" /\ pc = "extract"
  /\ IF source.url # None
     THEN content' = extract_text_from_url(source.doc) /\ extracts' = extracts + 1
     ELSE IF EndsWith(Lower(source.filename), DotPdf)
     THEN content' = extract_text_from_pdf(source.doc) /\ extracts' = extracts + 1
     ELSE IF EndsWith(Lower(source.filename), DotDocx)
     THEN content' = extract_text_from_docx(source.doc) /\ extracts' = extracts + 1
     ELSE UNCHANGED <<content, extracts>>
  /\ pc' = IF content' = Raised THEN "crashed"
           ELSE IF Truthy(content') /\ ~source.extract_only THEN "generate"
           ELSE "done"
  /\ UNCHANGED <<entry, source, model_name, audience, api_token, Locals, response,
                 disk, saved>>

\* if newsletter: display_newsletter(newsletter); save_newsletter(newsletter, args.output)
CliMainOutput ==
  /\ entry = "cli_main" /\ pc = "returned"
  /\ saved' = (result.kind = "newsletter")
  /\ pc' = "done"
  /\ UNCHANGED <<Inputs, Locals, response, disk, extracts>>

(***************************************************************************)
(* interactive_mode() of src/cli.py                                        *)
(***************************************************************************)
\* model_map.get(model_choice, "gpt2"), with input().strip() or "1"
ModelMap(choice) ==
  CASE choice \in {"", "1"} -> "gpt2"
    [] choice = "2" -> "distilgpt2"
    [] choice = "3" -> "microsoft/DialoGPT-medium"
    [] OTHER -> "gpt2"

\* audience_map.get(audience_choice, "business"), with input().strip() or "1"
AudienceMap(choice) ==
  CASE choice \in {"", "1"} -> "business"
    [] choice = "2" -> "technical"
    [] OTHER -> "business"

\* What the user types at the three set-up prompts: model, audience, token
InteractiveSetups == { <<"", "", <<>>>>, <<"2", "2", <<"k">>>>, <<"9", "9", <<>>>> }

\* What the user types in one pass of the loop, and the document behind
\* the URL or the path
Typed(choice, url, filename, exists, doc, save) ==
  [choice |-> choice, url |-> url, filename |-> filename, exists |-> exists,
   doc |-> doc, save |-> save, json |-> FALSE, extract_only |-> FALSE]

InteractiveInputs ==
  { Typed("x", <<>>, <<>>, FALSE, FailDoc, "n"),
    Typed("3", <<>>, <<>>, FALSE, FailDoc, "n"),
    Typed("1", <<>>, <<>>, FALSE, FailDoc, "n"),
    Typed("1", SomeUrl, <<>>, FALSE, FailDoc, "n"),
    Typed("1", SomeUrl, <<>>, FALSE, GoodDoc, "y"),
    Typed("2", <<>>, <<>>, FALSE, FailDoc, "n"),
    Typed("2", <<>>, <<"a", ".", "p", "d", "f">>, FALSE, FailDoc, "n"),
    Typed("2", <<>>, <<"a", ".", "t", "x", "t">>, TRUE, GoodDoc, "n"),
    Typed("2", <<>>, <<"a", ".", "p", "d", "f">>, TRUE, ShortDoc, "y"),
    Typed("2", <<>>, <<"a", ".", "p", "d", "f">>, TRUE, EmptyDoc, "y"),
    Typed("2", <<>>, <<"b", ".", "D", "O", "C", "X">>, TRUE, GoodDoc, "n") }

\* Lines 215-228: the model, audience and token prompts
InteractiveSetup ==
  /\ entry = "interactive" /\ pc = "setup"
  /\ \E typed \in InteractiveSetups :
       /\ model_name' = ModelMap(typed[1])
       /\ audience' = AudienceMap(typed[2])
       /\ api_token' = IF typed[3] = <<>> THEN None ELSE typed[3]
  /\ pc' = "choice"
  /\ UNCHANGED <<entry, source, content, Locals, Outside>>

\* choice = input(...): '1' asks for the URL, '2' for the path and tests it,
\* '3' breaks, anything else prints a message.  A choice of '1' or '2'
\* starts a new request: what the previous pass left is no longer read.
InteractiveChoice ==
  /\ entry = "interactive" /\ pc = "choice"
  /\ \E typed \in InteractiveInputs :
       /\ IF typed.choice \in {"1", "2"}
          THEN /\ source' = typed
               /\ content' = None /\ instantiated' = 0 /\ calls' = <<>>
               /\ title' = None /\ introduction' = None /\ sections' = <<>>
               /\ cta' = None /\ section_chunks' = <<>> /\ result' = NoResult
               /\ via' = "none" /\ extracts' = 0 /\ saved' = FALSE
          ELSE /\ source' = [source EXCEPT !.choice = typed.choice]
               /\ UNCHANGED <<content, Locals, extracts, saved>>
       /\ pc' = IF typed.choice = "1"
                THEN (IF typed.url # <<>> THEN "extract" ELSE "choice")
                ELSE IF typed.choice = "2"
                THEN (IF typed.filename # <<>> /\ typed.exists THEN "extract" ELSE "choice")
                ELSE IF typed.choice = "3" THEN "exited"
                ELSE "choice"
  /\ UNCHANGED <<entry, model_name, audience, api_token, response, disk>>

\* The unsupported extension leaving the function instead of the pass
InteractiveExtract_return ==
  /\ entry = "interactive" /\ pc = "extract"
  /\ IF source.choice = "1"
     THEN content' = extract_text_from_url(source.doc) /\ extracts' = extracts + 1
     ELSE IF EndsWith(Lower(source.filename), DotPdf)
     THEN content' = extract_text_from_pdf(source.doc) /\ extracts' = extracts + 1
     ELSE IF EndsWith(Lower(source.filename), DotDocx)
     THEN content' = extract_text_from_docx(source.doc) /\ extracts' = extracts + 1
     ELSE UNCHANGED <<content, extracts>>
  /\ pc' = IF content' = Raised THEN "crashed"
           ELSE IF extracts' = extracts THEN "done"
           ELSE IF Truthy(content') THEN "generate"
           ELSE "choice"
  /\ UNCHANGED <<entry, source, model_name, audience, api_token, Locals, response,
                 disk, saved>>

\* The extraction of the pass; an unsupported extension continues the loop
InteractiveExtract ==
  /\ entry = "interactive" /\ pc = "extract"
  /\ IF source.choice = "1"
     THEN content' = extract_text_from_url(source.doc) /\ extracts' = extracts + 1
     ELSE IF EndsWith(Lower(source.filename), DotPdf)
     THEN content' = extract_text_from_pdf(source.doc) /\ extracts' = extracts + 1
     ELSE IF EndsWith(Lower(source.filename), DotDocx)
     THEN content' = extract_text_from_docx(source.doc) /\ extracts' = extracts + 1
     ELSE UNCHANGED <<content, extracts>>
  /\ pc' = IF content' = Raised THEN "crashed"
           ELSE IF extracts' = extracts THEN "choice"
           ELSE IF Truthy(content') THEN "generate"
           ELSE "choice"
  /\ UNCHANGED <<entry, source, model_name, audience, api_token, Locals, response,
                 disk, saved>>

\* if newsletter: display_newsletter; save = input(...); if save == 'y':
\* save_newsletter, which reports a failed write and returns
InteractiveOutput ==
  /\ entry = "interactive" /\ pc = "returned"
  /\ IF result.kind = "error" THEN pc' = "crashed" /\ UNCHANGED saved
     ELSE /\ pc' = "choice"
          /\ IF result.kind = "newsletter" /\ source.save = "y"
             THEN \E written \in BOOLEAN : saved' = written
             ELSE UNCHANGED saved
  /\ UNCHANGED <<Inputs, Locals, response, disk, extracts>>

Next ==
  \/ Compose
  \/ ApiUrlRequest \/ ApiUrlExtract \/ ApiUrlRespond
  \/ ApiFileRequest \/ ApiFileSave \/ ApiFileExtract \/ ApiFileCleanup
  \/ CliMainArgs \/ CliMainExtract \/ CliMainOutput
  \/ InteractiveSetup \/ InteractiveChoice \/ InteractiveExtract \/ InteractiveOutput

Spec == Init /\ [][Next]_vars

(***************************************************************************)
(* Two generate-from-file requests in flight in the threaded server        *)
(* (src/app.py).  pc, source, content, response and extracts hold one      *)
(* value per request; the upload folder is shared.  The steps of a request *)
(* are those of generate_from_file that touch the folder; the composition  *)
(* between extraction and clean-up does not touch it and is one step.      *)
(***************************************************************************)
Requests == {1, 2}

UploadNames ==
  { <<"a", ".", "p", "d", "f">>,
    <<"_", "a", ".", "p", "d", "f">>,
    <<"b", ".", "D", "O", "C", "X">>,
    <<"a", ".", "t", "x", "t">>,
    <<".", "p", "d", "f">> }

\* The document request r uploads
UploadDoc(r) == Doc(FALSE, TRUE, <<Rep(Letters[r], 61)>>)

PathOf(r) == secure_filename(source[r].filename)

InitUploads ==
  /\ entry = "uploads"
  /\ pc = [r \in Requests |-> "request"]
  /\ \E names \in [Requests -> UploadNames] :
       source = [r \in Requests |->
                   Source(FALSE, None, names[r], FALSE, FALSE, UploadDoc(r))]
  /\ content = [r \in Requests |-> None]
  /\ response = [r \in Requests |-> 0]
  /\ extracts = [r \in Requests |-> 0]
  /\ disk = {}
  /\ model_name = "gpt2" /\ audience = "business" /\ api_token = None
  /\ instantiated = 0 /\ calls = <<>> /\ title = None /\ introduction = None
  /\ sections = <<>> /\ cta = None /\ section_chunks = <<>> /\ result = NoResult
  /\ via = "none" /\ saved = FALSE

UploadsFixed == <<entry, source, model_name, audience, api_token, Locals, saved>>

UploadRequest(r) ==
  /\ entry = "uploads" /\ pc[r] = "request"
  /\ IF ~Truthy(source[r].filename) \/ ~allowed_file(source[r].filename)
     THEN response' = [response EXCEPT ![r] = 400] /\ pc' = [pc EXCEPT ![r] = "done"]
     ELSE pc' = [pc EXCEPT ![r] = "save"] /\ UNCHANGED response
  /\ UNCHANGED <<UploadsFixed, content, extracts, disk>>

UploadSave(r) ==
  /\ entry = "uploads" /\ pc[r] = "save"
  /\ disk' = SaveUpload(disk, PathOf(r), source[r].doc)
  /\ pc' = [pc EXCEPT ![r] = "extract"]
  /\ UNCHANGED <<UploadsFixed, content, response, extracts>>

UploadExtract(r) ==
  /\ entry = "uploads" /\ pc[r] = "extract"
  /\ LET found == ReadFile(disk, PathOf(r))
         text == IF EndsWith(Lower(PathOf(r)), DotPdf) THEN extract_text_from_pdf(found)
                 ELSE extract_text_from_docx(found)
     IN IF ~(EndsWith(Lower(PathOf(r)), DotPdf) \/ EndsWith(Lower(PathOf(r)), DotDocx))
        THEN /\ response' = [response EXCEPT ![r] = 400]
             /\ pc' = [pc EXCEPT ![r] = "cleanup"]
             /\ UNCHANGED <<content, extracts>>
        ELSE /\ content' = [content EXCEPT ![r] = text]
             /\ extracts' = [extracts EXCEPT ![r] = @ + 1]
             /\ IF ~Truthy(text)
                THEN response' = [response EXCEPT ![r] = 400]
                     /\ pc' = [pc EXCEPT ![r] = "cleanup"]
                ELSE pc' = [pc EXCEPT ![r] = "compose"] /\ UNCHANGED response
  /\ UNCHANGED <<UploadsFixed, disk>>

\* generate_newsletter: None for a short text, else a newsletter or an
\* exception, as the model decides
UploadCompose(r) ==
  /\ entry = "uploads" /\ pc[r] = "compose"
  /\ \E status \in (IF TooShort(content[r]) THEN {500} ELSE {200, 500}) :
       response' = [response EXCEPT ![r] = status]
  /\ pc' = [pc EXCEPT ![r] = "cleanup"]
  /\ UNCHANGED <<UploadsFixed, content, extracts, disk>>

\* finally: if os.path.exists(filepath):
UploadCleanup(r) ==
  /\ entry = "uploads" /\ pc[r] = "cleanup"
  /\ pc' = [pc EXCEPT ![r] = IF Exists(disk, PathOf(r)) THEN "remove" ELSE "done"]
  /\ UNCHANGED <<UploadsFixed, content, response, extracts, disk>>

\* os.remove(filepath); it raises when the file is gone, and the outer
\* except clause answers 500
UploadRemove(r) ==
  /\ entry = "uploads" /\ pc[r] = "remove"
  /\ disk' = RemoveUpload(disk, PathOf(r))
  /\ response' = IF Exists(disk, PathOf(r)) THEN response
                 ELSE [response EXCEPT ![r] = 500]
  /\ pc' = [pc EXCEPT ![r] = "done"]
  /\ UNCHANGED <<UploadsFixed, content, extracts>>

NextUploads ==
  \E r \in Requests :
     \/ UploadRequest(r) \/ UploadSave(r) \/ UploadExtract(r)
     \/ UploadCompose(r) \/ UploadCleanup(r) \/ UploadRemove(r)

SpecUploads == InitUploads /\ [][NextUploads]_vars

(***************************************************************************)
(* Properties                                                              *)
(***************************************************************************)
Composing == pc \in {"generate", "pipeline", "title", "introduction", "section", "cta"}

SectionLens == {Len(Strip(sections[k])) : k \in 1..Len(sections)}

\* All six generator calls returned (none raised)
AllGenerated == Len(calls) = 6 /\ \A k \in 1..6 : calls[k][2] # Raised

\* C1: content that is absent, empty or of trimmed length below 50 makes
\* generate_newsletter (service and CLI) return None; the pipeline is never
\* instantiated and no generation call is made.
C1_ShortContentRejected ==
  (content = None \/ content = <<>> \/ Len(Strip(content)) < 50) =>
     /\ instantiated = 0
     /\ calls = <<>>
     /\ pc \notin {"pipeline", "title", "introduction", "section", "cta"}
     /\ (pc = "returned" => result = NoResult)

C1_Witness ==
  /\ pc = "returned" /\ entry \in {"gen_app", "gen_cli"}
  /\ content # None /\ Len(content) >= 50 /\ Len(Strip(content)) = 49
  /\ result = NoResult /\ instantiated = 0

\* C2: for every content of length >= 50 the fallback newsletter has a
\* non-empty headline, an introduction of at least 10 characters, between 1
\* and 3 sections, and the fixed call to action.
C2_FallbackWellFormed ==
  (pc = "fallback_done" /\ Len(content) >= 50) =>
     /\ result.kind = "newsletter"
     /\ result.headline # <<>>
     /\ Len(result.introduction) >= 10
     /\ Len(result.sections) >= 1 /\ Len(result.sections) <= 3
     /\ result.cta = FallbackCta

\* C3: every newsletter returned from the model path, by the service and by
\* the CLI, has a headline of trimmed length >= 5, an introduction of trimmed
\* length >= 10, at least one section, and a section of trimmed length > 20.
C3_ModelPathValidated ==
  (via = "model" /\ result.kind = "newsletter") =>
     /\ Len(Strip(result.headline)) >= 5
     /\ Len(Strip(result.introduction)) >= 10
     /\ Len(result.sections) >= 1
     /\ \E k \in 1..Len(result.sections) : Len(Strip(result.sections[k])) > 20

\* C4: for the same content and the same model outputs that fail validation,
\* the service raises and returns no newsletter while the CLI returns the
\* fallback newsletter, and that newsletter has a non-empty headline, an
\* introduction of at least 10 characters and from 1 to 3 sections.
C4_StrictRaisesLenientFallsBack ==
  (/\ pc = "returned" /\ AllGenerated
   /\ \/ Len(Strip(title)) < 5
      \/ Len(Strip(introduction)) < 10
      \/ \A n \in SectionLens : n <= 20) =>
     LET strict == FinishStrict(title, introduction, sections, cta)
         lenient == FinishLenient(title, introduction, sections, cta, content)
     IN /\ strict.kind = "error"
        /\ lenient = create_fallback_newsletter(content)
        /\ lenient.headline # <<>>
        /\ Len(lenient.introduction) >= 10
        /\ Len(lenient.sections) >= 1 /\ Len(lenient.sections) <= 3

\* C5: in the CLI, for every content of trimmed length >= 50 and whatever
\* the model does (any text, empty text, an error at instantiation or at any
\* call), the call is over after one instantiation and at most six generator
\* calls and returns a newsletter of four fields: it neither raises nor
\* returns None.
C5_LenientAlwaysReturnsNewsletter ==
  (/\ entry \in {"gen_cli", "cli_main"}
   /\ content # None /\ content # Raised /\ Len(Strip(content)) >= 50) =>
     /\ Len(calls) <= 6 /\ instantiated <= 1
     /\ (\E k \in 1..Len(calls) : calls[k][2] = Raised) => pc \in {"returned", "done"}
     /\ (pc = "returned" =>
           /\ result.kind = "newsletter"
           /\ DOMAIN result = {"kind", "headline", "introduction", "sections", "cta"}
           /\ via \in {"model", "fallback"})
     /\ (pc = "done" /\ instantiated = 1 => result.kind = "newsletter" /\ saved)

C5_Witness ==
  /\ entry = "gen_cli" /\ pc = "returned"
  /\ Len(calls) = 4 /\ calls[4][2] = Raised
  /\ result.kind = "newsletter" /\ via = "fallback"

\* C6: the service's validation names "title" exactly when the headline's
\* trimmed length is below 5 (5 passes, 4 fails), "introduction" exactly when
\* the introduction's is below 10 (10 passes, 9 fails), "sections" exactly
\* when no section is left, "valid sections" exactly when the longest section
\* is at most 20 long (21 passes, 20 fails); it raises exactly when one of
\* these is named.
C6_ValidationBoundaries ==
  (Strict /\ pc = "returned" /\ AllGenerated) =>
     LET missing == IF result.kind = "error"
                    THEN {result.missing[k] : k \in 1..Len(result.missing)}
                    ELSE {}
     IN /\ ("title" \in missing) <=> (Len(Strip(title)) < 5)
        /\ ("introduction" \in missing) <=> (Len(Strip(introduction)) < 10)
        /\ ("sections" \in missing) <=> (\A n \in SectionLens : n = 0)
        /\ ("valid sections" \in missing) <=>
             ((\E n \in SectionLens : n > 0) /\ (\A n \in SectionLens : n <= 20))
        /\ missing \subseteq {"title", "introduction", "sections", "valid sections"}
        /\ (result.kind = "error") <=> (missing # {})
        /\ (result.kind = "error" => result.cause = "validation")
        /\ result.kind \in {"error", "newsletter"}

C6_Witness ==
  /\ Strict /\ pc = "returned" /\ AllGenerated
  /\ Len(Strip(title)) = 4 /\ Len(Strip(introduction)) = 10
  /\ 21 \in SectionLens /\ 20 \in SectionLens
  /\ result.kind = "error" /\ result.missing = <<"title">>

\* C7: the non-empty lines are split into 3 contiguous chunks of
\* floor(line_count / 3) lines, the last chunk taking the remainder, so the
\* chunks in order hold every non-empty line exactly once (stated for the
\* contents of at least 3 lines, where floor(line_count / 3) >= 1).
C7_ChunksPartitionLines ==
  (pc = "partition_done" /\ Len(ContentLines(content)) >= 3) =>
     LET lines == ContentLines(content)
         n == Len(lines)
         size == n \div 3
     IN /\ Len(section_chunks) = 3
        /\ section_chunks[1] = Join(SubSeq(lines, 1, size), <<NL>>)
        /\ section_chunks[2] = Join(SubSeq(lines, size + 1, 2 * size), <<NL>>)
        /\ section_chunks[3] = Join(SubSeq(lines, 2 * size + 1, n), <<NL>>)

\* C8: once the upload endpoint has saved the upload, the file is gone from
\* the upload folder when the response is produced, whatever the outcome.
C8_UploadRemoved ==
  (entry = "api_file" /\ pc = "done") => (disk = {} /\ response \in {200, 400, 500})

C8_Witness ==
  /\ entry = "api_file" /\ pc = "done" /\ extracts = 1
  /\ result.kind = "error" /\ result.cause = "model"
  /\ response = 500 /\ disk = {}

\* C9: generate-from-url answers 400 exactly when the request carries no
\* url or the url's content cannot be extracted, 500 exactly when composition
\* fails, 200 otherwise; a 400 is never preceded by a model invocation.
C9_UrlEndpointStatus ==
  (entry = "api_url" /\ pc = "done") =>
     LET nourl == ~source.json \/ source.url = None \/ source.url = <<>>
         unfetchable == ~nourl /\ (content = None \/ content = <<>>)
     IN /\ response \in {200, 400, 500}
        /\ (response = 400) <=> (nourl \/ unfetchable)
        /\ (response = 500) <=> (~nourl /\ ~unfetchable /\ result.kind # "newsletter")
        /\ (response = 200) <=> (result.kind = "newsletter")
        /\ (response = 400 => instantiated = 0 /\ calls = <<>>)

\* C10: an extractor turns every error into None and raises nothing; a run
\* calls an extractor at most once; after a None from the extractor no
\* model is instantiated or called and no newsletter is returned.
C10_ExtractionFailureIsTerminal ==
  /\ extracts <= 1
  /\ content # Raised /\ pc # "crashed"
  /\ (extracts = 1 /\ source.doc.fail => content = None)
  /\ (extracts = 1 /\ content = None =>
        /\ instantiated = 0 /\ calls = <<>>
        /\ result.kind # "newsletter" /\ ~saved /\ response # 200
        /\ ~Composing /\ pc # "returned")

C10_Witness ==
  /\ entry = "cli_main" /\ pc = "done" /\ extracts = 1
  /\ source.doc.fail /\ content = None /\ ~saved

\* C11: if the content begins with a "Title: " line, the headline is that
\* line's text (the literal "Newsletter" when there is no such line or the
\* text is empty), and only that line and a blank line following it leave the
\* content; if the remaining content begins with a "Summary: " line, the
\* introduction is the summary text followed by the fixed sentence, and only
\* that line and a blank line following it leave the content; otherwise the
\* introduction is the generic sentence.  No other content line is dropped:
\* the sections are those of the content without its header lines.
C11_FallbackHeaders ==
  (pc = "fallback_done") =>
     LET DropHeader(c) ==
           LET lines == Split(c, <<NL>>)
           IN IF Len(lines) >= 2 /\ Strip(lines[2]) = <<>>
              THEN Join(DropFirst(lines, 2), <<NL>>)
              ELSE Join(DropFirst(lines, 1), <<NL>>)
         TextOf(c, prefix) == Strip(DropFirst(Split(c, <<NL>>)[1], Len(prefix)))
         hasTitle == StartsWith(content, TitlePrefix)
         rest1 == IF hasTitle THEN DropHeader(content) ELSE content
         hasSummary == StartsWith(rest1, SummaryPrefix)
         rest2 == IF hasSummary THEN DropHeader(rest1) ELSE rest1
     IN /\ result.headline =
             (IF hasTitle /\ TextOf(content, TitlePrefix) # <<>>
              THEN TextOf(content, TitlePrefix) ELSE DefaultTitle)
        /\ result.introduction =
             (IF hasSummary /\ TextOf(rest1, SummaryPrefix) # <<>>
              THEN TextOf(rest1, SummaryPrefix) \o SummaryTail ELSE GenericIntroduction)
        /\ result.sections = BodySections(rest2)

\* C12: the fallback newsletter has 2 or 3 sections for every content the
\* CLI composer can hand over (trimmed length of at least 50).
C12_FallbackTwoOrThreeSections ==
  (pc = "fallback_done" /\ Len(Strip(content)) >= 50) =>
     Len(result.sections) \in {2, 3}

\* C19: when at least 2 blank-line-separated paragraphs of the remaining
\* content have trimmed length > 80, the sections are the first min(3, k) of
\* them in document order; otherwise the sections are made only of the
\* sentences of trimmed length > 60, in their order, each in exactly one
\* section, a section being closed as soon as it has reached 200 characters
\* and never before; the first 3 such sections are kept.
C19_FallbackSectionDerivation ==
  (pc = "fallback_done") =>
     LET body == FallbackBody(content)
         paras == Paragraphs(body)
         k == Len(paras)
         sents == Sentences(body)
         n == Len(sents)
         Text(i, j) == Join(SubSeq(sents, i, j), <<" ">>)
         \* Cuts: the sentences after which a section ends (the last excepted)
         Group(Cuts, i, j) ==
           /\ i <= j
           /\ (i = 1 \/ (i - 1) \in Cuts)
           /\ (j = n \/ j \in Cuts)
           /\ \A c \in Cuts : ~(i <= c /\ c < j)
         Greedy(Cuts) ==
           \A i \in 1..n, j \in 1..n :
              Group(Cuts, i, j) =>
                 /\ (j \in Cuts => Len(Text(i, j)) >= 200)
                 /\ (j > i => Len(Text(i, j - 1)) < 200)
         Start(Cuts, g) == CHOOSE i \in 1..n :
            (i = 1 \/ (i - 1) \in Cuts) /\ Cardinality({c \in Cuts : c < i}) = g - 1
         End(Cuts, g) == CHOOSE j \in 1..n :
            (j = n \/ j \in Cuts) /\ Cardinality({c \in Cuts : c < j}) = g - 1
         Packed(Cuts) ==
           [g \in 1..(Cardinality(Cuts) + 1) |-> Text(Start(Cuts, g), End(Cuts, g))]
     IN IF k >= 2
        THEN result.sections = SubSeq(paras, 1, IF k < 3 THEN k ELSE 3)
        ELSE IF n = 0 THEN result.sections = <<>>
        ELSE \E Cuts \in SUBSET (1..(n - 1)) :
                /\ Greedy(Cuts)
                /\ result.sections = Take(Packed(Cuts), 3)

C19_Witness ==
  /\ pc = "fallback_done"
  /\ Len(Paragraphs(FallbackBody(content))) < 2
  /\ Len(Sentences(FallbackBody(content))) = 5
  /\ Len(result.sections) = 2

\* C14: two composition requests that differ only in api_token send the same
\* prompts and end with the same validation outcome and the same result; two
\* that differ only in audience and get the same model outputs make the same
\* calls in the same order, with prompts that differ at most in the audience
\* wording, and end with the same decision and the same result.
C14_TokenAndAudienceDoNotInterfere ==
  (entry \in {"gen_app", "gen_cli"} /\ pc = "returned" /\ calls # <<>>) =>
     LET outs == [k \in 1..Len(calls) |-> calls[k][2]]
         sent == [k \in 1..Len(calls) |-> calls[k][3]]
         Unworded(prompts) == [k \in 1..Len(prompts) |-> [prompts[k] EXCEPT !.wording = "-"]]
     IN \A p \in Params :
           LET other == generate_newsletter_hf(Strict, content, model_name, p[1], p[2], outs)
           IN /\ other.result = result
              /\ other.via = via
              /\ Unworded(other.prompts) = Unworded(sent)
              /\ (p[1] = audience => other.prompts = sent)

C14_Witness ==
  /\ entry = "gen_cli" /\ pc = "returned" /\ via = "model" /\ Len(calls) = 6
  /\ audience = "technical"
  /\ calls[2][3].wording = "technical"

\* C16: the generator is called for the headline, the introduction, chunk 1,
\* chunk 2, chunk 3 and the call to action, in this order and one call after
\* the other, whatever the template (Phi-3 or base model); each section call
\* is about its chunk, the call-to-action prompt holds the headline the first
\* call produced; after a call that raises no call is made.
C16_CallsInFixedOrder ==
  /\ Len(calls) <= 6
  /\ \A k \in 1..Len(calls) :
        /\ calls[k][1] = Fields[k]
        /\ calls[k][3].field = Fields[k]
        /\ calls[k][3].template = Template(Strict, model_name)
        /\ (calls[k][2] = Raised => k = Len(calls) /\ ~Composing)
  /\ (pc = "title" => Len(calls) = 0)
  /\ (pc = "introduction" => Len(calls) = 1)
  /\ (pc = "section" => Len(calls) = 2 + Len(sections) /\ Len(sections) < 3)
  /\ (pc = "cta" => Len(calls) = 5)
  /\ \A k \in 3..5 : k <= Len(calls) =>
        calls[k][3].text = Take(section_chunks[k - 2], ChunkChars(calls[k][3].template))
  /\ (Len(calls) = 6 => calls[6][3].text = PostProcess(calls[1][2]))
  /\ (via = "model" => AllGenerated)

C16_Witness ==
  /\ model_name = Phi3 /\ pc = "returned" /\ AllGenerated
  /\ calls[6][3].template = "phi3" /\ calls[6][3].text = Rep("x", 5)

\* C17: each generated field (headline, introduction, each section, call to
\* action) is the first line of the model's continuation, stripped; the text
\* of later lines of the continuation is not in the field.
C17_FirstLineOnly ==
  (via = "model" /\ result.kind = "newsletter" /\ AllGenerated) =>
     LET First(out) == Strip(Split(out, <<NL>>)[1])
     IN /\ result.headline = First(calls[1][2])
        /\ result.introduction = First(calls[2][2])
        /\ \A i \in 1..Len(result.sections) :
              \E k \in 3..5 : result.sections[i] = First(calls[k][2])
        /\ result.cta = First(calls[6][2])

\* C18: the sections of a newsletter returned from the model path, by the
\* service and by the CLI, are the non-empty generation results in the order
\* of their chunks: from 1 to 3 entries, none empty or whitespace-only.
C18_SectionsNonEmptyInOrder ==
  (via = "model" /\ result.kind = "newsletter" /\ AllGenerated) =>
     LET generated == [i \in 1..3 |-> PostProcess(calls[i + 2][2])]
     IN /\ Len(result.sections) \in 1..3
        /\ \A i \in 1..Len(result.sections) : Strip(result.sections[i]) # <<>>
        /\ result.sections = SelectSeq(generated, LAMBDA x : Strip(x) # <<>>)

\* C15: the upload endpoint accepts only filenames whose extension is pdf or
\* docx, whatever the case: any other upload (other extension, no extension,
\* empty or missing filename) is answered 400, no file is ever written to the
\* upload folder and neither an extractor nor the model runs; every upload
\* that passes the extension check is handed to the extractor of its
\* extension.
C15_UploadExtensionGate ==
  (entry = "api_file") =>
     LET name == source.filename
         accepted == Truthy(name) /\ allowed_file(name)
         pdf == EndsWith(Lower(name), DotPdf)
     IN /\ ~accepted =>
             /\ disk = {} /\ extracts = 0 /\ instantiated = 0 /\ calls = <<>>
             /\ pc \in {"request", "done"}
             /\ (pc = "done" => response = 400)
        /\ (accepted /\ pc \notin {"request", "save", "extract"}) =>
             /\ extracts = 1
             /\ content = IF pdf THEN extract_text_from_pdf(source.doc)
                                 ELSE extract_text_from_docx(source.doc)

\* C13: with two generate-from-file requests in flight, whatever the
\* interleaving and also when the two sanitized filenames are equal, the
\* extractor of a request reads the file that request uploaded, and the file
\* a request has saved is neither overwritten nor deleted by the other
\* request before the first has finished processing it.
C13_UploadsIndependent ==
  \A r \in Requests :
     /\ pc[r] \in {"extract", "compose"} =>
          ReadFile(disk, PathOf(r)) = source[r].doc
     /\ extracts[r] = 1 =>
          content[r] = IF EndsWith(Lower(PathOf(r)), DotPdf)
                       THEN extract_text_from_pdf(source[r].doc)
                       ELSE extract_text_from_docx(source[r].doc)

\* C20: interactive mode leaves its menu loop only by the exit choice '3'
\* typed at the choice prompt; every other input or outcome (invalid choice,
\* empty URL, missing file, unsupported extension, failed extraction, too
\* short a content, a model failure absorbed by the fallback, a declined or
\* failed save) leads back to the choice prompt, each pass moving forward
\* through extraction, composition and output without ending the run.
C20_InteractiveLoopExitsOnlyOnChoice3 ==
  [][ (entry = "interactive" /\ pc # "setup") =>
        LET Rank(at) == CASE at = "extract" -> 1 [] at = "generate" -> 2
                          [] at = "pipeline" -> 3 [] at = "title" -> 4
                          [] at = "introduction" -> 5 [] at = "section" -> 6
                          [] at = "cta" -> 7 [] at = "returned" -> 8
                          [] OTHER -> 0
        IN /\ pc' \in {"choice", "exited", "extract", "generate", "pipeline", "title",
                        "introduction", "section", "cta", "returned"}
           /\ (pc' = "exited" => pc = "choice" /\ source'.choice = "3")
           /\ (pc = "choice" /\ source'.choice = "3" => pc' = "exited")
           /\ (pc = "choice" /\ source'.choice # "3" => pc' \in {"choice", "extract"})
           /\ (pc \notin {"choice", "exited"} =>
                 \/ pc' = "choice"
                 \/ Rank(pc') > Rank(pc)
                 \/ pc' = "section" /\ pc = "section" /\ Len(sections') > Len(sections))
           /\ (pc = "returned" => pc' = "choice")
           /\ pc # "exited"
     ]_vars

C20_Witness ==
  /\ entry = "interactive" /\ pc = "exited" /\ source.choice = "3"
  /\ via = "fallback" /\ result.kind = "newsletter" /\ saved

====
